---------------------------- MODULE Spec2Model ----------------------------
(***************************************************************************)
(* Model of the AI-powered terminal: SafetyFilter (safety_filter.py),      *)
(* CommandExecutor (command_executor.py) and the AITerminal pipeline       *)
(* (main.py) driven by TerminalGUI worker threads (terminal_gui.py).       *)
(*                                                                         *)
(* A Python str is a sequence of one-character strings, so that strip,     *)
(* the "in" substring test, startswith and re.search are computed on       *)
(* characters as the code computes them.                                   *)
(***************************************************************************)
EXTENDS Integers, Sequences, FiniteSets, TLC

(***************************************************************************)
(* State.                                                                  *)
(*   cmd, result          the SafetyFilter test loop: the command under    *)
(*                        test and the verdict is_safe returned for it     *)
(*   calls                the calls made on one SafetyFilter object, with  *)
(*                        what each returned                               *)
(*   working_directory    CommandExecutor.working_directory                *)
(*   fs                   the file system: its directories and files       *)
(*   trace                the calls the Executor has served, in order: its *)
(*                        construction, the subprocesses spawned, the      *)
(*                        set_working_directory calls returned, the        *)
(*                        returns of execute to the worker threads; an     *)
(*                        event holds the call's argument and the          *)
(*                        directory it used or left stored                 *)
(*   returned             what the last execute call to return returned    *)
(*   callers              the threads that call the Executor directly      *)
(*   workers              the threads TerminalGUI._on_submit starts, one   *)
(*                        per submitted line, each running process_command *)
(*   history              the SessionLogger's entries, in append order     *)
(*   current_directory    TerminalGUI.current_directory, the prompt        *)
(*   session_closed       whether close_session has been called            *)
(***************************************************************************)
VARIABLES cmd, result, calls, working_directory, fs, trace, returned, callers,
          workers, history, current_directory, session_closed

filterVars == <<cmd, result, calls>>

executorVars == <<working_directory, fs, trace, returned>>

pipelineVars == <<workers, history, current_directory, session_closed>>

vars == <<cmd, result, calls, working_directory, fs, trace, returned, callers,
          workers, history, current_directory, session_closed>>

(***************************************************************************)
(* Bounds of the model.                                                    *)
(***************************************************************************)
\* a SafetyFilter input is a concatenation of at most MaxFrags fragments
MaxFrags == 3

(***************************************************************************)
(* Characters and str methods.                                             *)
(***************************************************************************)
LowerLetters ==
  <<"a","b","c","d","e","f","g","h","i","j","k","l","m",
    "n","o","p","q","r","s","t","u","v","w","x","y","z">>

UpperLetters ==
  <<"A","B","C","D","E","F","G","H","I","J","K","L","M",
    "N","O","P","Q","R","S","T","U","V","W","X","Y","Z">>

Digits == {"0","1","2","3","4","5","6","7","8","9"}

\* the characters str.strip() removes and the regex class \s matches
Whitespace == {" ", "\t", "\n", "\r", "\f"}

IsLower(c) == \E i \in 1..26 : LowerLetters[i] = c

IsUpper(c) == \E i \in 1..26 : UpperLetters[i] = c

\* the regex class \w
IsWordChar(c) == IsLower(c) \/ IsUpper(c) \/ c \in Digits \/ c = "_"

LowerChar(c) ==
  IF IsUpper(c) THEN LowerLetters[CHOOSE i \in 1..26 : UpperLetters[i] = c] ELSE c

UpperChar(c) ==
  IF IsLower(c) THEN UpperLetters[CHOOSE i \in 1..26 : LowerLetters[i] = c] ELSE c

\* str.lower()
Lower(s) == [i \in 1..Len(s) |-> LowerChar(s[i])]

\* str.upper()
Upper(s) == [i \in 1..Len(s) |-> UpperChar(s[i])]

\* str.strip()
Strip(s) ==
  LET keep == {i \in 1..Len(s) : s[i] \notin Whitespace}
  IN  IF keep = {} THEN <<>>
      ELSE SubSeq(s, CHOOSE i \in keep : \A j \in keep : i <= j,
                     CHOOSE i \in keep : \A j \in keep : j <= i)

\* str.startswith(prefix)
StartsWith(s, prefix) ==
  Len(prefix) <= Len(s) /\ SubSeq(s, 1, Len(prefix)) = prefix

\* the substring test "sub in s"
Contains(s, sub) ==
  \E i \in 1..(Len(s) - Len(sub) + 1) : SubSeq(s, i, i + Len(sub) - 1) = sub

(***************************************************************************)
(* Regular expressions: a pattern is a sequence of items, an item a        *)
(* character class (a literal character, \s, \w, [a-z] or (.), the dot)    *)
(* with a quantifier ("1", "+" or "*").                                    *)
(***************************************************************************)
ClassHas(cls, c, ignorecase) ==
  CASE cls = "\\s"   -> c \in Whitespace
    [] cls = "\\w"   -> IsWordChar(c)
    [] cls = "[a-z]" -> IsLower(c) \/ (ignorecase /\ IsUpper(c))
    [] cls = "(.)"   -> c # "\n"
    [] OTHER         -> IF ignorecase THEN LowerChar(c) = LowerChar(cls) ELSE c = cls

Lit(chars) == [i \in 1..Len(chars) |-> [cls |-> chars[i], q |-> "1"]]

WsPlus == <<[cls |-> "\\s", q |-> "+"]>>

WsStar == <<[cls |-> "\\s", q |-> "*"]>>

WordPlus == <<[cls |-> "\\w", q |-> "+"]>>

AnyStar == <<[cls |-> "(.)", q |-> "*"]>>

LowerAZ == <<[cls |-> "[a-z]", q |-> "1"]>>

\* whether items k.. of the pattern match s starting at position i
RECURSIVE MatchAt(_, _, _, _, _)
MatchAt(re, k, s, i, ignorecase) ==
  IF k > Len(re) THEN TRUE
  ELSE LET it == re[k]
           run(j) == \A m \in i..(j - 1) : ClassHas(it.cls, s[m], ignorecase)
       IN  CASE it.q = "1" ->
                  /\ i <= Len(s)
                  /\ ClassHas(it.cls, s[i], ignorecase)
                  /\ MatchAt(re, k + 1, s, i + 1, ignorecase)
             [] it.q = "+" ->
                  \E j \in (i + 1)..(Len(s) + 1) :
                     run(j) /\ MatchAt(re, k + 1, s, j, ignorecase)
             [] it.q = "*" ->
                  \E j \in i..(Len(s) + 1) :
                     run(j) /\ MatchAt(re, k + 1, s, j, ignorecase)

\* re.search(pattern, s, flags)
Search(re, s, ignorecase) ==
  \E i \in 1..(Len(s) + 1) : MatchAt(re, 1, s, i, ignorecase)

(***************************************************************************)
(* SafetyFilter                                                            *)
(***************************************************************************)
DANGEROUS_COMMANDS ==
  << <<"r","m"," ","-","r","f"," ","/">>,
     <<"r","m"," ","-","r","f"," ","/","*">>,
     <<"m","k","f","s">>,
     <<"d","d"," ","i","f","=">>,
     <<">"," ","/","d","e","v","/","s","d","a">>,
     <<"m","v"," ","/","h","o","m","e">>,
     <<"c","h","m","o","d"," ","-","R"," ","7","7","7"," ","/">>,
     <<":","(",")","{",":","|",":","&","}",";",":">> >>

RmRf == Lit(<<"r","m">>) \o WsPlus \o Lit(<<"-","r","f">>) \o WsPlus

Mv == Lit(<<"m","v">>) \o WsPlus

Init0or6(d) == Lit(<<"i","n","i","t">>) \o WsPlus \o Lit(<<d>>)

DANGEROUS_PATTERNS ==
  << RmRf \o Lit(<<"/">>),
     RmRf \o Lit(<<"/">>) \o WordPlus,
     RmRf \o Lit(<<"*">>),
     Lit(<<"m","k","f","s",".">>),
     Lit(<<"d","d">>) \o WsPlus \o Lit(<<"i","f","=">>),
     Lit(<<">">>) \o WsStar \o Lit(<<"/","d","e","v","/","s","d">>) \o LowerAZ,
     Lit(<<"c","h","m","o","d">>) \o WsPlus \o Lit(<<"-","R">>) \o WsPlus
        \o Lit(<<"7","7","7">>) \o WsPlus \o Lit(<<"/">>),
     Lit(<<"s","h","u","t","d","o","w","n">>),
     Lit(<<"r","e","b","o","o","t">>),
     Init0or6("0"),
     Init0or6("6"),
     Lit(<<"h","a","l","t">>),
     Lit(<<"p","o","w","e","r","o","f","f">>),
     Lit(<<"c","h","o","w","n">>) \o WsPlus \o Lit(<<"-","R">>),
     Mv \o Lit(<<"/","h","o","m","e">>),
     Mv \o Lit(<<"/","e","t","c">>),
     Mv \o Lit(<<"/","u","s","r">>),
     Mv \o Lit(<<"/","v","a","r">>),
     Mv \o Lit(<<"/","b","i","n">>),
     Mv \o Lit(<<"/","s","b","i","n">>),
     Lit(<<"r","m">>) \o WsPlus \o Lit(<<"/","e","t","c","/">>),
     RmRf \o Lit(<<"~","/">>),
     Lit(<<":","(",")","{">>) \o AnyStar \o Lit(<<"}">>) >>

critical_dirs ==
  << <<"/","b","i","n">>, <<"/","s","b","i","n">>, <<"/","u","s","r">>,
     <<"/","l","i","b">>, <<"/","l","i","b","6","4">>, <<"/","b","o","o","t">>,
     <<"/","s","y","s">>, <<"/","p","r","o","c">> >>

\* the regex rm\s+.*<dir_path> of the critical-directory guard
RmCritical(dir_path) == Lit(<<"r","m">>) \o WsPlus \o AnyStar \o Lit(dir_path)

\* the regex mv\s+<dir_path> of the critical-directory guard
MvCritical(dir_path) == Mv \o Lit(dir_path)

\* least of the iterations whose test holds, 0 when there is none: the
\* iteration that returns from a for loop
FirstIndex(hits) ==
  IF hits = {} THEN 0 ELSE CHOOSE i \in hits : \A j \in hits : i <= j

Verdict(allowed, reason, arg) == [allowed |-> allowed, reason |-> reason, arg |-> arg]

\* mutant of LiteralHit: the filter remembers the commands it was asked about
\* and treats a command it has seen before as a denylist hit
LiteralHit_Remembering(c) ==
  IF \E i \in 1..Len(calls) : calls[i].op = "is_safe" /\ Strip(calls[i].arg) = c
  THEN 1
  ELSE FirstIndex({i \in 1..Len(DANGEROUS_COMMANDS) : Contains(c, DANGEROUS_COMMANDS[i])})

\* the literal denylist loop: index of the first fragment found in the command
LiteralHit(c) ==
  FirstIndex({i \in 1..Len(DANGEROUS_COMMANDS) : Contains(c, DANGEROUS_COMMANDS[i])})

\* mutant of PatternHit: the patterns are searched without re.IGNORECASE
PatternHit_CaseSensitive(c) ==
  FirstIndex({i \in 1..Len(DANGEROUS_PATTERNS) : Search(DANGEROUS_PATTERNS[i], c, FALSE)})

\* the pattern denylist loop, matched with re.IGNORECASE
PatternHit(c) ==
  FirstIndex({i \in 1..Len(DANGEROUS_PATTERNS) : Search(DANGEROUS_PATTERNS[i], c, TRUE)})

\* the critical-directory loop, matched without flags: iteration 2d-1 is the rm
\* test of directory d, iteration 2d its mv test
CriticalHit(c) ==
  FirstIndex({k \in 1..(2 * Len(critical_dirs)) :
                IF k % 2 = 1
                THEN Search(RmCritical(critical_dirs[(k + 1) \div 2]), c, FALSE)
                ELSE Search(MvCritical(critical_dirs[k \div 2]), c, FALSE)})

SudoHit(c) ==
  StartsWith(c, <<"s","u","d","o"," ">>) \/ Contains(c, <<" ","s","u","d","o"," ">>)

SuHit(c) ==
  StartsWith(c, <<"s","u"," ">>) \/ Contains(c, <<" ","s","u"," ">>)

\* the checks of is_safe on the stripped command, in the order of the code; the
\* first that triggers returns
Guards(c) ==
  LET lit == LiteralHit(c) IN
  IF lit # 0
  THEN Verdict(FALSE, "Blocked: Command contains dangerous operation",
               DANGEROUS_COMMANDS[lit])
  ELSE IF PatternHit(c) # 0
  THEN Verdict(FALSE, "Blocked: Command matches dangerous pattern", <<>>)
  ELSE LET crit == CriticalHit(c) IN
  IF crit # 0
  THEN IF crit % 2 = 1
       THEN Verdict(FALSE, "Blocked: Attempting to remove critical system directory",
                    critical_dirs[(crit + 1) \div 2])
       ELSE Verdict(FALSE, "Blocked: Attempting to move critical system directory",
                    critical_dirs[crit \div 2])
  ELSE IF SudoHit(c)
  THEN Verdict(FALSE, "Blocked: sudo commands require manual execution for security", <<>>)
  ELSE IF SuHit(c)
  THEN Verdict(FALSE, "Blocked: su commands require manual execution for security", <<>>)
  ELSE Verdict(TRUE, "Command passed safety checks", <<>>)

\* mutant of is_safe: a command passes only when its first word is one of the
\* read-only verbs of SAFE_COMMANDS
is_safe_SafeCommandsOnly(command) ==
  LET c == Strip(command)
      verbs == { <<"l","s">>, <<"p","w","d">>, <<"c","a","t">>, <<"e","c","h","o">>,
                 <<"f","i","n","d">>, <<"d","f">>, <<"w","h","o","a","m","i">> }
  IN  IF c = <<>> THEN Verdict(FALSE, "Empty command", <<>>)
      ELSE IF \E v \in verbs :
                 StartsWith(c, v) /\ (Len(c) = Len(v) \/ c[Len(v) + 1] \in Whitespace)
      THEN Guards(c)
      ELSE Verdict(FALSE, "Blocked: not a safe command", <<>>)

\* SafetyFilter.is_safe
is_safe(command) ==
  LET c == Strip(command)
  IN  IF c = <<>> THEN Verdict(FALSE, "Empty command", <<>>) ELSE Guards(c)

\* re.split(r'[;&|]+', command)[0]: the text before the first run of the
\* characters ; & |, the whole text when there is no such character
SplitFirst(command) ==
  LET at == {i \in 1..Len(command) : command[i] \in {";", "&", "|"}}
  IN  IF at = {} THEN command
      ELSE SubSeq(command, 1, (CHOOSE i \in at : \A j \in at : i <= j) - 1)

\* "if ';' in command or '&&' in command or '||' in command"
HasChaining(command) ==
  \/ Contains(command, <<";">>)
  \/ Contains(command, <<"&","&">>)
  \/ Contains(command, <<"|","|">>)

sanitize_command(command) ==
  LET c == Strip(command)
  IN  IF HasChaining(c) THEN Strip(SplitFirst(c)) ELSE c

(***************************************************************************)
(* Inputs of the SafetyFilter: the commands of the component test suite    *)
(* and every concatenation of at most MaxFrags fragments.                  *)
(***************************************************************************)
safe_tests ==
  { <<"l","s"," ","-","l","a">>,
    <<"p","w","d">>,
    <<"c","a","t"," ","f","i","l","e",".","t","x","t">>,
    <<"e","c","h","o"," ","'","h","e","l","l","o","'">>,
    <<"f","i","n","d"," ","."," ","-","n","a","m","e"," ","'","*",".","p","y","'">>,
    <<"d","f"," ","-","h">>,
    <<"w","h","o","a","m","i">> }

dangerous_tests ==
  { <<"r","m"," ","-","r","f"," ","/">>,
    <<"r","m"," ","-","r","f"," ","/","*">>,
    <<"s","u","d","o"," ","r","m"," ","f","i","l","e",".","t","x","t">>,
    <<"s","h","u","t","d","o","w","n"," ","n","o","w">>,
    <<"m","k","f","s",".","e","x","t","4"," ","/","d","e","v","/","s","d","a">>,
    <<"d","d"," ","i","f","=","/","d","e","v","/","z","e","r","o"," ",
      "o","f","=","/","d","e","v","/","s","d","a">>,
    <<"c","h","m","o","d"," ","-","R"," ","7","7","7"," ","/">>,
    <<"r","e","b","o","o","t">>,
    <<":","(",")","{",":","|",":","&","}",";",":">> }

Fragments ==
  { <<"r","m"," ","-","r","f"," ">>,
    <<"R","m","\t","-","r","F"," "," ">>,
    <<"r","m"," ">>,
    <<"m","v"," ">>,
    <<"/">>,
    <<"/","u","s","r">>,
    <<"*">>,
    <<"s","u","d","o">>,
    <<"s","u">>,
    <<"l","s"," ">>,
    <<" ">>,
    <<"\t">>,
    <<";">>,
    <<"|">>,
    <<"&">> }

RECURSIVE Concats(_)
Concats(n) ==
  IF n = 0 THEN {<<>>}
  ELSE LET shorter == Concats(n - 1)
       IN  shorter \cup {s \o f : s \in shorter, f \in Fragments}

FilterInputs == safe_tests \cup dangerous_tests \cup Concats(MaxFrags)

(***************************************************************************)
(* The SafetyFilter test loop (test_safety_filter).                        *)
(***************************************************************************)
NotCalled == [allowed |-> FALSE, reason |-> "not called", arg |-> <<>>]

\* is_safe, msg = sf.is_safe(cmd)
CallIsSafe ==
  /\ result = NotCalled
  /\ result' = is_safe(cmd)
  /\ UNCHANGED <<cmd, calls, executorVars, callers, pipelineVars>>

(***************************************************************************)
(* One SafetyFilter object and the calls made on it.                       *)
(***************************************************************************)
MaxFilterCalls == 3

ValidatorInputs ==
  { <<"l","s">>, <<" ","l","s"," ">>, <<"s","u","d","o"," ","l","s">>,
    <<"a",";","b">>, <<"a","&","&","b">>, <<"a","|","|","b">>,
    <<"a"," ","|"," ","b">>, <<"a"," ","&">>, <<";","a">>,
    <<"a"," ","|"," ","b",";","c">>, <<"a","&","b","&","&","c">>,
    <<"l","s"," ",";"," ","r","m"," ","-","r","f"," ","/">> }

\* what is_safe returns for each input
ValidatorVerdicts == [command \in ValidatorInputs |-> is_safe(command)]

Call(op, arg, ret) == [op |-> op, arg |-> arg, ret |-> ret]

\* is_safe, msg = sf.is_safe(command)
IsSafeCall(command) ==
  /\ Len(calls) < MaxFilterCalls
  /\ calls' = Append(calls, Call("is_safe", command, ValidatorVerdicts[command]))
  /\ UNCHANGED <<cmd, result, executorVars, callers, pipelineVars>>

\* sf.sanitize_command(command)
SanitizeCall(command) ==
  /\ Len(calls) < MaxFilterCalls
  /\ calls' = Append(calls, Call("sanitize_command", command, sanitize_command(command)))
  /\ UNCHANGED <<cmd, result, executorVars, callers, pipelineVars>>

(***************************************************************************)
(* CommandExecutor                                                         *)
(***************************************************************************)
\* a path is a str; None is the default argument of __init__
None == <<"None">>

HomeDirectory == <<"/","h","o","m","e","/","u">>

WorkDirectory == <<"/","h","o","m","e","/","u","/","w">>

TildeWork == <<"~","/","w">>

SomeFile == <<"/","e","t","c","/","f">>

MissingPath == <<"/","n","o">>

\* the file system the program starts in
InitialFs ==
  [dirs |-> {HomeDirectory, WorkDirectory}, files |-> {SomeFile}]

\* os.path.expanduser: a leading "~" that is the whole first component becomes
\* the home directory
expanduser(path) ==
  IF Len(path) >= 1 /\ path[1] = "~" /\ (Len(path) = 1 \/ path[2] = "/")
  THEN HomeDirectory \o SubSeq(path, 2, Len(path))
  ELSE path

\* os.path.exists
exists(f, path) == path \in f.dirs \cup f.files

\* os.path.isdir
isdir(f, path) == path \in f.dirs

\* CommandExecutor.__init__: the stored directory
InitDirectory(working_directory_arg) ==
  IF working_directory_arg = None THEN expanduser(<<"~">>) ELSE working_directory_arg

\* CommandExecutor.__init__: os.makedirs when the directory does not exist
InitFs(f, working_directory_arg) ==
  IF exists(f, InitDirectory(working_directory_arg)) THEN f
  ELSE [f EXCEPT !.dirs = @ \cup {InitDirectory(working_directory_arg)}]

\* the default of execute's timeout parameter
DefaultTimeout == 30

TimeoutMessage(timeout) ==
  CASE timeout = 1  -> "Command timed out after 1 seconds"
    [] timeout = 30 -> "Command timed out after 30 seconds"
    [] OTHER        -> "Command timed out after n seconds"

ExecutionResult(success, stdout, stderr) ==
  [success |-> success, stdout |-> stdout, stderr |-> stderr]

\* what a spawned subprocess can end in: its exit status and captured output,
\* or the expiry of the timeout
Outcomes(timeout) ==
  { ExecutionResult(TRUE, "out", ""), ExecutionResult(TRUE, "", ""),
    ExecutionResult(TRUE, "out", "warn"),
    ExecutionResult(FALSE, "", "err"), ExecutionResult(FALSE, "", ""),
    ExecutionResult(FALSE, "", TimeoutMessage(timeout)) }

\* "except subprocess.TimeoutExpired: return ..."
TimeoutResult(timeout) == ExecutionResult(FALSE, "", TimeoutMessage(timeout))

\* what subprocess.run returns when the subprocess ends before the timeout
ExitOutcomes(timeout) == Outcomes(timeout) \ {TimeoutResult(timeout)}

\* mutant of RunIsTimed: subprocess.run is called without its timeout argument
RunIsTimed_NoTimeout(timeout) == FALSE

\* "timeout=timeout": subprocess.run kills the subprocess and raises
\* TimeoutExpired once the timeout has passed
RunIsTimed(timeout) == timeout > 0

\* mutant of IsEmptyCommand: only "if not command"
IsEmptyCommand_NotStripped(command) == command = <<>>

\* execute's first test: "if not command or not command.strip()"
IsEmptyCommand(command) == Strip(command) = <<>>

EmptyCommandResult == ExecutionResult(FALSE, "", "Empty command")

\* subprocess.run raises when cwd is no directory; "except Exception" returns
SpawnErrorResult == ExecutionResult(FALSE, "", "Error executing command")

\* how an execute call proceeds up to subprocess.run: refused as empty, failed
\* to spawn because the stored directory is no directory, or spawned
ExecuteEntry(command) ==
  IF IsEmptyCommand(command) THEN "execute_empty"
  ELSE IF ~isdir(fs, working_directory) THEN "spawn_error"
  ELSE "spawn"

\* what execute returns without waiting for a subprocess
ImmediateResult(entry) ==
  IF entry = "execute_empty" THEN EmptyCommandResult ELSE SpawnErrorResult

\* mutant of ExecuteCatches: execute has no "except Exception" clause
ExecuteCatches_TimeoutOnly(r) == r # SpawnErrorResult

\* execute's except clauses: a TimeoutExpired or any other exception raised
\* by subprocess.run is caught and returned as a result
ExecuteCatches(r) == TRUE

\* a command that was run may have removed the directory it ran in
RemoveDirectory(f, directory) == [f EXCEPT !.dirs = @ \ {directory}]

\* mutant of DirectoryOk: the isdir test is missing
DirectoryOk_ExistsOnly(f, directory) == exists(f, directory)

\* set_working_directory's two tests
DirectoryOk(f, directory) == exists(f, directory) /\ isdir(f, directory)

Event(op, by, command, dir, ret) ==
  [op |-> op, by |-> by, command |-> command, dir |-> dir, ret |-> ret]

(***************************************************************************)
(* Threads that call the Executor directly.  A caller is idle, or inside   *)
(* execute while its subprocess runs ("executing"), or inside              *)
(* set_working_directory between its tests and its assignment ("setting"). *)
(***************************************************************************)
NumCallers == 2

MaxCalls == 3

Callers == 1..NumCallers

ExecutorCommands == { <<"l","s">>, <<" ">>, <<>> }

DirectoryArguments == { <<"~">>, TildeWork, SomeFile, MissingPath }

InitArguments == { None, MissingPath, SomeFile }

NoResult == ExecutionResult(FALSE, "", "no result")

\* pc: where the thread is; argument, timeout: the arguments of the call it is
\* in; directory: set_working_directory's local variable after expanduser
Caller(pc, argument, directory, timeout) ==
  [pc |-> pc, argument |-> argument, directory |-> directory, timeout |-> timeout]

IdleCaller == Caller("idle", <<>>, <<>>, 0)

Returned(by, value) == [by |-> by, value |-> value]

\* the calls made so far: those served and those inside set_working_directory
Served == Len(trace) - 1 + Cardinality({t \in Callers : callers[t].pc = "setting"})

\* execute up to subprocess.run: the empty test, then the spawn in the stored
\* working directory
ExecuteCall(t, command, timeout) ==
  /\ callers[t].pc = "idle"
  /\ Served < MaxCalls
  /\ LET entry == ExecuteEntry(command)
     IN  /\ trace' = Append(trace, Event(entry, t, command, working_directory, TRUE))
         /\ IF entry = "spawn"
            THEN /\ callers' = [callers EXCEPT ![t] = Caller("executing", command, <<>>, timeout)]
                 /\ UNCHANGED returned
            ELSE /\ returned' = Returned(t, ImmediateResult(entry))
                 /\ UNCHANGED callers
  /\ UNCHANGED <<filterVars, working_directory, fs, pipelineVars>>

\* the subprocess ends before the timeout: subprocess.run returns, execute
\* returns its exit status and output
ExecuteReturn(t) ==
  /\ callers[t].pc = "executing"
  /\ \E r \in ExitOutcomes(callers[t].timeout) :
        returned' = Returned(t, r)
  /\ callers' = [callers EXCEPT ![t] = IdleCaller]
  /\ UNCHANGED <<filterVars, working_directory, fs, trace, pipelineVars>>

\* the timeout passes while the subprocess runs: subprocess.run kills it and
\* raises TimeoutExpired
Expire(t) ==
  /\ callers[t].pc = "executing"
  /\ RunIsTimed(callers[t].timeout)
  /\ callers' = [callers EXCEPT ![t].pc = "expired"]
  /\ UNCHANGED <<filterVars, executorVars, pipelineVars>>

\* "except subprocess.TimeoutExpired": execute returns the timeout message
ExecuteTimeout(t) ==
  /\ callers[t].pc = "expired"
  /\ returned' = Returned(t, TimeoutResult(callers[t].timeout))
  /\ callers' = [callers EXCEPT ![t] = IdleCaller]
  /\ UNCHANGED <<filterVars, working_directory, fs, trace, pipelineVars>>

\* set_working_directory up to its assignment: expanduser and the two tests
SetWorkingDirectoryCall(t, directory) ==
  /\ callers[t].pc = "idle"
  /\ Served < MaxCalls
  /\ LET d == expanduser(directory)
     IN  IF DirectoryOk(fs, d)
         THEN /\ callers' = [callers EXCEPT ![t] = Caller("setting", directory, d, 0)]
              /\ UNCHANGED trace
         ELSE /\ trace' = Append(trace, Event("set", t, directory, working_directory, FALSE))
              /\ UNCHANGED callers
  /\ UNCHANGED <<filterVars, working_directory, fs, returned, pipelineVars>>

\* "self.working_directory = directory; return True"
SetWorkingDirectoryAssign(t) ==
  /\ callers[t].pc = "setting"
  /\ working_directory' = callers[t].directory
  /\ trace' = Append(trace, Event("set", t, callers[t].argument,
                                  callers[t].directory, TRUE))
  /\ callers' = [callers EXCEPT ![t] = IdleCaller]
  /\ UNCHANGED <<filterVars, fs, returned, pipelineVars>>

(***************************************************************************)
(* SessionLogger.  Its module is not among the sources; it is modelled     *)
(* from the Ledger of the specification and from its calls:                *)
(* log_interaction(natural_language, generated_command, stdout, stderr="", *)
(* error=None, blocked=False) appends one entry.  The position of an entry *)
(* stands for its timestamp; "by" names the thread that made the call.     *)
(***************************************************************************)
ErrorText(reason, arg) == [reason |-> reason, arg |-> arg]

NoError == ErrorText("None", <<>>)

LogEntry(by, natural_language, generated_command, stdout, stderr, error, blocked) ==
  [by |-> by, natural_language |-> natural_language,
   generated_command |-> generated_command, stdout |-> stdout, stderr |-> stderr,
   error |-> error, blocked |-> blocked]

log_interaction(entries, entry) == Append(entries, entry)

(***************************************************************************)
(* AITerminal: one worker thread per submitted line.                       *)
(*                                                                         *)
(* A worker calls the tkinter widgets from its own thread (display_*,      *)
(* update_prompt).  Such a call returns, or it raises: TclError once       *)
(* _on_close has destroyed the window or when Tcl rejects the text,        *)
(* RuntimeError once the main thread has left mainloop.  An exception      *)
(* raised inside the try block of process_command reaches its              *)
(* "except Exception" handler; any other ends the thread.                  *)
(***************************************************************************)
NumWorkers == 2

Workers == 1..NumWorkers

DirectLs == <<"!","l","s">>

DirectCd == <<"!","c","d"," ","w">>

DirectSudo == <<"!","s","u","d","o"," ","l","s">>

NaturalLanguage == <<"g","o">>

ExitInput == <<"E","x","i","t">>

\* the lines the user submits, as _on_submit passes them on: stripped, not empty
UserInputs == { DirectLs, DirectCd, DirectSudo, NaturalLanguage, ExitInput }

\* what LLMHandler.generate_command can return
GeneratedCommands ==
  { None, <<"c","d"," ","w">>, <<"r","m"," ","-","r","f"," ","/">> }

BuiltIns ==
  { <<"h","e","l","p">>, <<"c","l","e","a","r">>, <<"h","i","s","t","o","r","y">>,
    <<"s","u","m","m","a","r","y">> }

ExitWords == { <<"e","x","i","t">>, <<"q","u","i","t">> }

\* the commands the pipeline can hold, and what is_safe returns for each
PipelineCommands ==
  {Strip(Tail(u)) : u \in UserInputs} \cup (GeneratedCommands \ {None})

PipelineVerdicts == [c \in PipelineCommands |-> is_safe(c)]

\* pc: where the thread is in process_command / _execute_command
\* in_try: whether it is inside the try block of process_command
Worker(pc, user_input, command, verdict, res, in_try) ==
  [pc |-> pc, user_input |-> user_input, command |-> command,
   verdict |-> verdict, res |-> res, in_try |-> in_try]

Unborn == Worker("unborn", <<>>, <<>>, NotCalled, NoResult, FALSE)

\* where an exception raised by a widget call takes the thread
Raised(w) == IF w.in_try THEN "handling" ELSE "crashed"

\* mutant of IsBlocked: the tuple is_safe returns is tested, not its first part
IsBlocked_Never(verdict) == FALSE

\* "if not is_safe:"
IsBlocked(verdict) == ~verdict.allowed

\* os.path.basename
basename(path) ==
  LET slashes == {i \in 1..Len(path) : path[i] = "/"}
  IN  IF slashes = {} THEN path
      ELSE SubSeq(path, (CHOOSE i \in slashes : \A j \in slashes : j <= i) + 1, Len(path))

\* mutant of PromptText: the prompt shows the directory the command named
PromptText_Target(directory) == <<"~","/","w">>

\* the prompt _execute_command passes to update_prompt
PromptText(directory) ==
  IF basename(directory) = <<>> THEN <<"/">> ELSE <<"~","/">> \o basename(directory)

\* TerminalGUI._on_submit: a thread is started for the line
OnSubmit(t, user_input) ==
  /\ workers[t].pc = "unborn"
  /\ \A u \in 1..(t - 1) : workers[u].pc # "unborn"
  /\ workers' = [workers EXCEPT ![t] =
                   Worker("received", user_input, <<>>, NotCalled, NoResult, FALSE)]
  /\ UNCHANGED <<filterVars, executorVars, callers, history, current_directory,
                 session_closed>>

\* process_command up to the LLM call or the call of _execute_command: the
\* built-in commands, the direct command, the start of the generation
ProcessCommand(t, raises) ==
  LET w == workers[t]
      word == Lower(w.user_input)
  IN  /\ w.pc = "received"
      /\ \E closes \in BOOLEAN :
            IF word \in ExitWords
            THEN \* _handle_exit: close_session lies between widget calls
                 /\ session_closed' = (session_closed \/ closes \/ ~raises)
                 /\ workers' = [workers EXCEPT ![t].pc = IF raises THEN "crashed" ELSE "done"]
            ELSE /\ UNCHANGED session_closed
                 /\ ~closes
                 /\ IF word \in BuiltIns
                    THEN workers' = [workers EXCEPT ![t].pc =
                                       IF raises THEN "crashed" ELSE "done"]
                    ELSE IF StartsWith(w.user_input, <<"!">>)
                    THEN workers' = [workers EXCEPT ![t] =
                            Worker(IF raises THEN "crashed" ELSE "validating",
                                   w.user_input, Strip(Tail(w.user_input)),
                                   NotCalled, NoResult, FALSE)]
                    ELSE workers' = [workers EXCEPT ![t] =
                            Worker(IF raises THEN "crashed" ELSE "generating",
                                   w.user_input, <<>>, NotCalled, NoResult, ~raises)]
      /\ UNCHANGED <<filterVars, executorVars, callers, history, current_directory>>

\* generated_command = self.llm_handler.generate_command(user_input), and the
\* display of the command or of the failure
GenerateCommand(t, raises) ==
  LET w == workers[t]
  IN  /\ w.pc = "generating"
      /\ \E generated_command \in GeneratedCommands :
            workers' = [workers EXCEPT ![t] =
               IF raises THEN [w EXCEPT !.pc = Raised(w)]
               ELSE IF generated_command \in {None, <<>>}
               THEN [w EXCEPT !.pc = "failed"]
               ELSE [w EXCEPT !.pc = "validating", !.command = generated_command]]
      /\ UNCHANGED <<filterVars, executorVars, callers, history, current_directory,
                     session_closed>>

\* the log_interaction call of the "if not generated_command" branch
LogGenerationFailed(t) ==
  LET w == workers[t]
  IN  /\ w.pc = "failed"
      /\ history' = log_interaction(history,
            LogEntry(t, w.user_input, <<>>, "", "",
                     ErrorText("Command generation failed", <<>>), FALSE))
      /\ workers' = [workers EXCEPT ![t].pc = "done"]
      /\ UNCHANGED <<filterVars, executorVars, callers, current_directory, session_closed>>

\* _execute_command: is_safe, then display_error or display_info("Executing...")
Validate(t, raises) ==
  LET w == workers[t]
      verdict == PipelineVerdicts[w.command]
  IN  /\ w.pc = "validating"
      /\ workers' = [workers EXCEPT ![t] =
               [w EXCEPT !.verdict = verdict,
                         !.pc = IF raises THEN Raised(w)
                                ELSE IF IsBlocked(verdict) THEN "blocked"
                                ELSE "allowed"]]
      /\ UNCHANGED <<filterVars, executorVars, callers, history, current_directory,
                     session_closed>>

\* the log_interaction call of the "if not is_safe" branch
LogBlocked(t) ==
  LET w == workers[t]
  IN  /\ w.pc = "blocked"
      /\ history' = log_interaction(history,
            LogEntry(t, w.user_input, w.command, "", "",
                     ErrorText(w.verdict.reason, w.verdict.arg), TRUE))
      /\ workers' = [workers EXCEPT ![t].pc = "done"]
      /\ UNCHANGED <<filterVars, executorVars, callers, current_directory, session_closed>>

\* self.command_executor.execute(command), up to subprocess.run
Spawn(t) ==
  LET w == workers[t]
      entry == ExecuteEntry(w.command)
  IN  /\ w.pc = "allowed"
      /\ trace' = Append(trace, Event(entry, t, w.command, working_directory, TRUE))
      /\ workers' = [workers EXCEPT ![t] =
            IF entry = "spawn" THEN [w EXCEPT !.pc = "running"]
            ELSE IF ExecuteCatches(ImmediateResult(entry))
            THEN [w EXCEPT !.pc = "executed", !.res = ImmediateResult(entry)]
            ELSE [w EXCEPT !.pc = Raised(w)]]
      /\ UNCHANGED <<filterVars, working_directory, fs, returned, callers, history,
                     current_directory, session_closed>>

\* subprocess.run returns or raises TimeoutExpired; execute returns.  The
\* command has run: it may have removed the working directory.
Finish(t) ==
  LET w == workers[t]
  IN  /\ w.pc = "running"
      /\ \E r \in Outcomes(DefaultTimeout), removed \in BOOLEAN :
            /\ workers' = [workers EXCEPT ![t] =
                  IF ExecuteCatches(r) THEN [w EXCEPT !.pc = "executed", !.res = r]
                  ELSE [w EXCEPT !.pc = Raised(w)]]
            /\ returned' = Returned(t, r)
            /\ trace' = Append(trace, Event("return", t, w.command, working_directory,
                                            r.success))
            /\ fs' = IF removed THEN RemoveDirectory(fs, working_directory) ELSE fs
      /\ UNCHANGED <<filterVars, working_directory, callers, history,
                     current_directory, session_closed>>

\* the display of stdout, stderr or the "no output" message
Display(t, raises) ==
  LET w == workers[t]
  IN  /\ w.pc = "executed"
      /\ workers' = [workers EXCEPT ![t].pc = IF raises THEN Raised(w) ELSE "logging"]
      /\ UNCHANGED <<filterVars, executorVars, callers, history, current_directory,
                     session_closed>>

\* the log_interaction call after the execution
LogExecuted(t) ==
  LET w == workers[t]
  IN  /\ w.pc = "logging"
      /\ history' = log_interaction(history,
            LogEntry(t, w.user_input, w.command, w.res.stdout, w.res.stderr,
                     NoError, FALSE))
      /\ workers' = [workers EXCEPT ![t].pc =
            IF StartsWith(Strip(w.command), <<"c","d"," ">>) THEN "prompting" ELSE "done"]
      /\ UNCHANGED <<filterVars, executorVars, callers, current_directory, session_closed>>

\* the update of the prompt after a command that starts with "cd "
UpdatePrompt(t, raises) ==
  LET w == workers[t]
  IN  /\ w.pc = "prompting"
      /\ IF raises
            THEN /\ workers' = [workers EXCEPT ![t].pc = Raised(w)]
                 /\ UNCHANGED current_directory
            ELSE /\ workers' = [workers EXCEPT ![t].pc = "done"]
                 /\ current_directory' = PromptText(working_directory)
      /\ UNCHANGED <<filterVars, executorVars, callers, history, session_closed>>

\* the "except Exception" handler of process_command: display_error, then
\* log_interaction
HandleException(t, raises) ==
  LET w == workers[t]
  IN  /\ w.pc = "handling"
      /\ IF raises
            THEN /\ workers' = [workers EXCEPT ![t].pc = "crashed"]
                 /\ UNCHANGED history
            ELSE /\ workers' = [workers EXCEPT ![t].pc = "done"]
                 /\ history' = log_interaction(history,
                       LogEntry(t, w.user_input, <<>>, "", "",
                                ErrorText("Error processing command", <<>>), FALSE))
      /\ UNCHANGED <<filterVars, executorVars, callers, current_directory, session_closed>>

(***************************************************************************)
(* Specifications.                                                         *)
(***************************************************************************)
IdleFilter == cmd = <<>> /\ result = NotCalled /\ calls = <<>>

IdleCallers == callers = [t \in Callers |-> IdleCaller]

\* AITerminal.__init__ without its CommandExecutor: SessionLogger, TerminalGUI
NewSession ==
  /\ workers = [t \in Workers |-> Unborn]
  /\ history = <<>>
  /\ current_directory = <<"~">>
  /\ session_closed = FALSE

\* CommandExecutor(working_directory_arg)
ConstructExecutor(working_directory_arg) ==
  /\ working_directory = InitDirectory(working_directory_arg)
  /\ fs = InitFs(InitialFs, working_directory_arg)
  /\ trace = <<Event("init", 0, working_directory_arg,
                     InitDirectory(working_directory_arg), TRUE)>>
  /\ returned = Returned(0, NoResult)

\* SpecFilter: is_safe applied to each input
FilterInit ==
  /\ cmd \in FilterInputs
  /\ result = NotCalled
  /\ calls = <<>>
  /\ ConstructExecutor(None)
  /\ IdleCallers
  /\ NewSession

FilterNext == CallIsSafe

SpecFilter == FilterInit /\ [][FilterNext]_vars

\* SpecValidator: is_safe and sanitize_command called on one SafetyFilter
\* object, in any order, on any of ValidatorInputs
ValidatorInit ==
  /\ IdleFilter
  /\ ConstructExecutor(None)
  /\ IdleCallers
  /\ NewSession

ValidatorNext ==
  \E command \in ValidatorInputs : IsSafeCall(command) \/ SanitizeCall(command)

SpecValidator == ValidatorInit /\ [][ValidatorNext]_vars

\* SpecExecutor: one Executor, called from NumCallers threads
ExecutorInit ==
  /\ IdleFilter
  /\ \E a \in InitArguments : ConstructExecutor(a)
  /\ IdleCallers
  /\ NewSession

ExecutorNext ==
  \E t \in Callers :
     \/ \E c \in ExecutorCommands, timeout \in {1, DefaultTimeout} : ExecuteCall(t, c, timeout)
     \/ ExecuteReturn(t)
     \/ Expire(t)
     \/ ExecuteTimeout(t)
     \/ \E d \in DirectoryArguments : SetWorkingDirectoryCall(t, d)
     \/ SetWorkingDirectoryAssign(t)

SpecExecutor == ExecutorInit /\ [][ExecutorNext]_vars

\* SpecExecutorLive: the same, where time passes (a timeout that is running
\* expires) and a thread that caught TimeoutExpired goes on to return
ExecutorFairness ==
  \A t \in Callers : WF_vars(Expire(t)) /\ WF_vars(ExecuteTimeout(t))

SpecExecutorLive == SpecExecutor /\ ExecutorFairness

\* Spec: the AITerminal, its lines submitted through the GUI
Init ==
  /\ IdleFilter
  /\ ConstructExecutor(None)
  /\ IdleCallers
  /\ NewSession

Next ==
  \E t \in Workers :
     \/ \E user_input \in UserInputs : OnSubmit(t, user_input)
     \/ \E raises \in BOOLEAN : ProcessCommand(t, raises)
     \/ \E raises \in BOOLEAN : GenerateCommand(t, raises)
     \/ LogGenerationFailed(t)
     \/ \E raises \in BOOLEAN : Validate(t, raises)
     \/ LogBlocked(t)
     \/ Spawn(t)
     \/ Finish(t)
     \/ \E raises \in BOOLEAN : Display(t, raises)
     \/ LogExecuted(t)
     \/ \E raises \in BOOLEAN : UpdatePrompt(t, raises)
     \/ \E raises \in BOOLEAN : HandleException(t, raises)

Spec == Init /\ [][Next]_vars

\* SpecWindow: the AITerminal while its window is open: every widget call
\* returns.  A started thread is scheduled until process_command returns.
WorkerStep(t) ==
  \/ ProcessCommand(t, FALSE)
  \/ GenerateCommand(t, FALSE)
  \/ LogGenerationFailed(t)
  \/ Validate(t, FALSE)
  \/ LogBlocked(t)
  \/ Spawn(t)
  \/ Finish(t)
  \/ Display(t, FALSE)
  \/ LogExecuted(t)
  \/ UpdatePrompt(t, FALSE)

WindowNext ==
  \E t \in Workers :
     \/ \E user_input \in UserInputs : OnSubmit(t, user_input)
     \/ WorkerStep(t)

SpecWindow == Init /\ [][WindowNext]_vars /\ \A t \in Workers : WF_vars(WorkerStep(t))

(***************************************************************************)
(* Claims about SafetyFilter.is_safe, checked under SpecFilter.            *)
(***************************************************************************)
Called == result # NotCalled

AllWhitespace(s, from, to) == \A m \in from..to : s[m] \in Whitespace

\* s holds "rm -rf" (in any letter case, its words separated by whitespace)
\* followed after whitespace by a path that starts at the root: /, /<dir>, /*
HasRootDeleteShape(s) ==
  \E i, j, k \in 1..Len(s) :
     /\ i + 2 < j /\ j + 3 < k
     /\ Lower(SubSeq(s, i, i + 1)) = <<"r","m">>
     /\ AllWhitespace(s, i + 2, j - 1)
     /\ Lower(SubSeq(s, j, j + 2)) = <<"-","r","f">>
     /\ AllWhitespace(s, j + 3, k - 1)
     /\ s[k] = "/"

\* C2: every command that contains a root-level recursive force-delete shape,
\* wherever it occurs in the string, is blocked by is_safe.
C2_RootDeleteBlocked ==
  (Called /\ HasRootDeleteShape(cmd)) => ~result.allowed

\* the shape occurs after other text and only the pattern denylist catches it
C2_Witness ==
  /\ Called
  /\ HasRootDeleteShape(cmd)
  /\ ~HasRootDeleteShape(SubSeq(cmd, 1, Len(cmd) - 1))
  /\ Lower(SubSeq(cmd, 1, 2)) # <<"r","m">>
  /\ result.reason = "Blocked: Command matches dangerous pattern"

TokenDelimiters == {" ", "\t", ";", "|", "&"}

\* tok occurs in s as a standalone word: between the start or a delimiter and
\* the end or a delimiter
HasToken(s, tok) ==
  \E i \in 1..(Len(s) - Len(tok) + 1) :
     /\ SubSeq(s, i, i + Len(tok) - 1) = tok
     /\ (i = 1 \/ s[i - 1] \in TokenDelimiters)
     /\ (i + Len(tok) - 1 = Len(s) \/ s[i + Len(tok)] \in TokenDelimiters)

HasElevationToken(s) ==
  HasToken(s, <<"s","u","d","o">>) \/ HasToken(s, <<"s","u">>)

\* C3: every command that starts with, or contains as a standalone word, sudo
\* or su is blocked by is_safe, whatever precedes or follows the token.
C3_ElevationBlocked ==
  (Called /\ HasElevationToken(cmd)) => ~result.allowed

\* C4: is_safe gives the same allow/block decision for a command, its upper
\* case and its lower case.
C4_CaseInsensitive ==
  Called => /\ is_safe(Upper(cmd)).allowed = result.allowed
            /\ is_safe(Lower(cmd)).allowed = result.allowed

\* the critical directories that occur in s as an argument (after whitespace)
\* behind a removal or move verb (rm or mv as a word followed by whitespace)
CriticalArguments(s) ==
  { d \in 1..Len(critical_dirs) :
      \E i, j \in 1..Len(s) :
         /\ i + 2 < j
         /\ j + Len(critical_dirs[d]) - 1 <= Len(s)
         /\ SubSeq(s, i, i + 1) \in {<<"r","m">>, <<"m","v">>}
         /\ (i = 1 \/ s[i - 1] \in TokenDelimiters)
         /\ s[i + 2] \in Whitespace
         /\ s[j - 1] \in Whitespace
         /\ SubSeq(s, j, j + Len(critical_dirs[d]) - 1) = critical_dirs[d] }

\* C5: every command that names a removal or move verb and references a
\* critical path among its arguments is blocked, and when it is the
\* critical-directory guard that blocks it the reason names such a path.
C5_CriticalDirBlocked ==
  (Called /\ CriticalArguments(cmd) # {}) =>
     /\ ~result.allowed
     /\ result.arg \in {<<>>} \cup {DANGEROUS_COMMANDS[i] : i \in 1..Len(DANGEROUS_COMMANDS)}
                     \cup {critical_dirs[d] : d \in CriticalArguments(cmd)}

\* none of the four guards of is_safe triggers on the stripped command
NoGuardTriggers(c) ==
  /\ LiteralHit(c) = 0
  /\ PatternHit(c) = 0
  /\ CriticalHit(c) = 0
  /\ ~SudoHit(c)
  /\ ~SuHit(c)

\* C6: the benign read-only commands of the allowlist, and every non-empty
\* command on which no guard triggers, are allowed with the reason
\* "Command passed safety checks".
C6_BenignAllowed ==
  (Called /\ (cmd \in safe_tests \/ (Strip(cmd) # <<>> /\ NoGuardTriggers(Strip(cmd)))))
     => (result.allowed /\ result.reason = "Command passed safety checks")

\* an allowlist command has been validated
C6_Witness ==
  /\ Called
  /\ cmd = <<"f","i","n","d"," ","."," ","-","n","a","m","e"," ","'","*",".","p","y","'">>
  /\ result.allowed
(***************************************************************************)
(* Claims about CommandExecutor, checked under SpecExecutor.               *)
(***************************************************************************)
\* the directory the Executor stores after the first i events: that of its
\* last set_working_directory call that returned True, else that of __init__
RECURSIVE StoredAfter(_)
StoredAfter(i) ==
  IF i <= 1 THEN trace[1].dir
  ELSE IF trace[i].op = "set" /\ trace[i].ret = TRUE THEN trace[i].dir
  ELSE StoredAfter(i - 1)

SetEvents == {i \in 2..Len(trace) : trace[i].op = "set"}

SpawnEvents == {i \in 2..Len(trace) : trace[i].op = "spawn"}

\* C9: set_working_directory with a path that does not exist or is no
\* directory returns False and leaves the stored directory unchanged; with an
\* existing directory it returns True and stores it, and every later execute
\* spawns its subprocess in that directory.
C9_SetWorkingDirectory ==
  /\ \A i \in SetEvents :
        LET d == expanduser(trace[i].command)
        IN  IF exists(fs, d) /\ isdir(fs, d)
            THEN trace[i].ret = TRUE /\ trace[i].dir = d
            ELSE trace[i].ret = FALSE /\ trace[i].dir = StoredAfter(i - 1)
  /\ \A i \in SpawnEvents : trace[i].dir = StoredAfter(i - 1)

\* a call was refused, an earlier one had moved the Executor to another
\* directory, and a later execute spawned there
C9_Witness ==
  \E i, j, k \in 2..Len(trace) :
     /\ i < j /\ j < k
     /\ trace[i].op = "set" /\ trace[i].ret = TRUE /\ trace[i].dir # trace[1].dir
     /\ trace[j].op = "set" /\ trace[j].ret = FALSE
     /\ trace[k].op = "spawn" /\ trace[k].dir = trace[i].dir

\* C10: no execute call of one thread interleaves with a
\* set_working_directory call of another thread.
C10_MutualExclusion ==
  \A t1, t2 \in Callers :
     ~(t1 # t2 /\ callers[t1].pc = "executing" /\ callers[t2].pc = "setting")
(***************************************************************************)
(* Claims about the pipeline (Spec)                                        *)
(***************************************************************************)
\* the calls of execute made by the worker threads
ExecuteEvents ==
  {i \in 2..Len(trace) : trace[i].op \in {"spawn", "spawn_error", "execute_empty"}}

\* the invocations for which is_safe has returned
Validated == {t \in Workers : workers[t].verdict # NotCalled}

\* the invocations whose thread has ended
Ended == {t \in Workers : workers[t].pc \in {"done", "crashed"}}

EntriesBy(t) == {i \in 1..Len(history) : history[i].by = t}

\* C1: execute is called only in an invocation whose is_safe call returned
\* allowed, and on the very command that was validated; an invocation whose
\* command was blocked spawns nothing.
C1_ExecuteOnlyValidated ==
  /\ \A i \in ExecuteEvents :
        LET t == trace[i].by
        IN  /\ t \in Validated
            /\ workers[t].verdict.allowed
            /\ trace[i].command = workers[t].command
            /\ workers[t].verdict = PipelineVerdicts[trace[i].command]
  /\ \A t \in Validated :
        ~workers[t].verdict.allowed => \A i \in ExecuteEvents : trace[i].by # t

\* a direct and a generated command have been executed, another was blocked
C1_Witness ==
  /\ \E i \in ExecuteEvents :
        /\ trace[i].op = "spawn"
        /\ workers[trace[i].by].pc = "done"
        /\ StartsWith(workers[trace[i].by].user_input, <<"!">>)
  /\ \E t \in Validated \cap Ended : ~workers[t].verdict.allowed

\* C7: an invocation that reached validation and has ended has appended
\* exactly one entry to the ledger, whatever its display and prompt steps did;
\* k such invocations have appended k entries
C7_OneEntryPerInvocation ==
  /\ \A t \in Validated \cap Ended : Cardinality(EntriesBy(t)) = 1
  /\ Cardinality({i \in 1..Len(history) : history[i].by \in Validated \cap Ended})
        = Cardinality(Validated \cap Ended)

\* C8: an entry of an invocation that reached validation has blocked = TRUE
\* exactly when the verdict was not allowed; a blocked entry has empty stdout
\* and stderr and the verdict's reason as error; an executed entry has the
\* stdout and stderr execute returned
C8_EntryMatchesVerdict ==
  \A i \in 1..Len(history) :
     LET e == history[i]
         w == workers[e.by]
     IN  e.by \in Validated =>
           /\ e.blocked = ~w.verdict.allowed
           /\ e.blocked =>
                 /\ e.stdout = "" /\ e.stderr = ""
                 /\ e.error = ErrorText(w.verdict.reason, w.verdict.arg)
           /\ ~e.blocked =>
                 /\ w.res # NoResult
                 /\ e.stdout = w.res.stdout /\ e.stderr = w.res.stderr

\* the threads inside execute
InExecute(t) == callers[t].pc \in {"executing", "expired"}

\* C11: every execute call returns; a call whose timeout expired before its
\* subprocess ended returns success = False, an empty stdout and a stderr that
\* names its timeout
C11_ExecuteTerminates ==
  /\ \A t \in Callers : InExecute(t) ~> (callers[t].pc = "idle")
  /\ [][\A t \in Callers :
          (callers[t].pc = "expired" /\ callers'[t].pc # "expired")
             => /\ callers'[t].pc = "idle"
                /\ returned'.by = t
                /\ ~returned'.value.success
                /\ returned'.value.stdout = ""
                /\ returned'.value.stderr = TimeoutMessage(callers[t].timeout)
                /\ \A other \in {1, DefaultTimeout} \ {callers[t].timeout} :
                      returned'.value.stderr # TimeoutMessage(other)]_vars

\* a call with a timeout of 1 second has timed out and returned
C11_Witness ==
  /\ returned.by \in Callers
  /\ returned.value = ExecutionResult(FALSE, "", TimeoutMessage(1))
  /\ callers[returned.by].pc = "idle"

\* the step is a call of execute with the command of the event it appends
ExecuteCalled ==
  /\ Len(trace') = Len(trace) + 1
  /\ trace'[Len(trace')].op \in {"spawn", "spawn_error", "execute_empty"}

\* C12: execute called with an empty or whitespace-only command returns a
\* failed result with an empty stdout and an error text, and no subprocess is
\* started
C12_EmptyCommandRejected ==
  [][(ExecuteCalled /\ \A i \in DOMAIN trace'[Len(trace')].command :
                          trace'[Len(trace')].command[i] \in Whitespace)
       => /\ trace'[Len(trace')].op = "execute_empty"
          /\ returned'.by = trace'[Len(trace')].by
          /\ ~returned'.value.success
          /\ returned'.value.stdout = ""
          /\ returned'.value.stderr = "Empty command"
          /\ callers' = callers]_vars

\* execute(" ") and execute("") have been called and have returned
C12_Witness ==
  /\ \E i \in 2..Len(trace) : trace[i].op = "execute_empty" /\ trace[i].command = <<" ">>
  /\ \E i \in 2..Len(trace) : trace[i].op = "execute_empty" /\ trace[i].command = <<>>
  /\ returned.value = EmptyCommandResult

(***************************************************************************)
(* Claims about one SafetyFilter object (SpecValidator)                    *)
(***************************************************************************)
SanitizeCalls == {i \in 1..Len(calls) : calls[i].op = "sanitize_command"}

\* where ";", "&&" or "||" starts in the command
OperatorStarts(c) ==
  {i \in 1..Len(c) :
      \/ c[i] = ";"
      \/ i < Len(c) /\ c[i] = "&" /\ c[i + 1] = "&"
      \/ i < Len(c) /\ c[i] = "|" /\ c[i + 1] = "|"}

\* the text before the first ";", "&&" or "||"
BeforeFirstOperator(c) ==
  SubSeq(c, 1, (CHOOSE i \in OperatorStarts(c) : \A j \in OperatorStarts(c) : i <= j) - 1)

\* C13: sanitize_command returns the trimmed command when it holds none of
\* ";", "&&", "||", and otherwise the trimmed text before the first of them,
\* single "|" and "&" before it included
C13_SanitizeTruncates ==
  \A i \in SanitizeCalls :
     LET c == Strip(calls[i].arg)
     IN  calls[i].ret = IF OperatorStarts(c) = {} THEN c
                        ELSE Strip(BeforeFirstOperator(c))

\* the position in trace at which the command of worker t completed: its
\* execute call returned
ReturnOf(t) == {i \in 2..Len(trace) : trace[i].op = "return" /\ trace[i].by = t}

\* C14: the entries of two invocations that ran concurrently stand in the
\* ledger in the order in which their commands completed
C14_LedgerInCompletionOrder ==
  \A i, j \in 1..Len(history) :
     LET t == history[i].by
         u == history[j].by
     IN  (i < j /\ t # u /\ ReturnOf(t) # {} /\ ReturnOf(u) # {})
            => \A a \in ReturnOf(t), b \in ReturnOf(u) : a < b

\* the invocations that ended in a rejection or in a failed execution: the
\* command was blocked, exited with an error, could not be spawned or timed out
FailedOutcome(t) ==
  /\ t \in Validated
  /\ \/ ~workers[t].verdict.allowed
     \/ workers[t].res \in {ExecutionResult(FALSE, "", "err"), ExecutionResult(FALSE, "", ""),
                            SpawnErrorResult, TimeoutResult(DefaultTimeout)}

\* C15: while the widgets work, no exception leaves process_command or
\* reaches its handler, whatever the verdict and the result of the command;
\* every submitted line is processed to the end, also after a line that was
\* rejected or failed
C15_NoUnhandledException ==
  /\ [](\A t \in Workers : workers[t].pc \notin {"crashed", "handling"})
  /\ \A t \in Workers : (workers[t].pc # "unborn") ~> (workers[t].pc = "done")

\* a command timed out, the next one could not be spawned; both lines were
\* processed to the end
C15_Witness ==
  /\ \A t \in Workers : workers[t].pc = "done" /\ FailedOutcome(t)
  /\ \E t \in Workers : workers[t].res = TimeoutResult(DefaultTimeout)
  /\ \E t \in Workers : workers[t].res = SpawnErrorResult

\* C16: the working directory stored in the Executor is an existing directory
\* in every state: after construction, after every set_working_directory call
\* and after every command
C16_WorkingDirectoryExists == isdir(fs, working_directory)

IsSafeCalls == {i \in 1..Len(calls) : calls[i].op = "is_safe"}

PromptUpdated(t) == workers[t].pc = "prompting" /\ workers'[t].pc = "done"

\* C18: the prompt is updated only by an allowed command that begins with
\* "cd " and was executed successfully, after its entry was appended to the
\* ledger; the entry does not hold the prompt
C18_PromptUpdateAfterSuccessfulCd ==
  [][\A t \in Workers :
        PromptUpdated(t)
           => /\ workers[t].verdict.allowed
              /\ StartsWith(workers[t].command, <<"c","d"," ">>)
              /\ workers[t].res.success
              /\ \E i \in EntriesBy(t) :
                    /\ ~history[i].blocked
                    /\ history[i].generated_command = workers[t].command
                    /\ DOMAIN history[i] = DOMAIN LogEntry(t, <<>>, <<>>, "", "", NoError, FALSE)]_vars

\* the directory the Executor was constructed with
ConstructedDirectory == trace[1].dir

AtExit(t) == workers[t].pc = "received" /\ Lower(workers[t].user_input) \in ExitWords

\* C20: once close_session has been called, a line submitted afterwards
\* neither executes a command nor appends an entry, and close_session is not
\* called again
C20_NothingAfterClose ==
  /\ \A t \in Workers :
        []((session_closed /\ workers[t].pc = "unborn")
              => [](EntriesBy(t) = {} /\ \A i \in ExecuteEvents : trace[i].by # t))
  /\ [][\A t \in Workers : (session_closed /\ AtExit(t)) => workers'[t].pc # "done"]_vars

=============================================================================
